---- MODULE Spec2Model ----
(***************************************************************************)
(* Error classification, backoff, retry wrapper and retrying proxies of    *)
(* src/src/error_handler.py, together with the way the domain operations   *)
(* (src/src/tools_reporting.py) obtain their client (src/src/auth.py).     *)
(*                                                                         *)
(* Times are in milliseconds.  An exception is a record                    *)
(*   [cls, errors, id]: its class, the error codes of failure.errors (for  *)
(*   a GoogleAdsException) and the number of the invocation that raised it *)
(*   (the identity of the exception object).                               *)
(***************************************************************************)
EXTENDS Integers, Sequences, FiniteSets, TLC

VARIABLES
    max_retries,     \* ErrorHandler.max_retries
    base_delay,      \* ErrorHandler.base_delay, in ms
    holding,         \* the object the calling code currently holds
    origin,          \* where the held object comes from
    callee,          \* the member whose call is in progress or has ended
    pc,              \* position in the call
    attempt,         \* wrapper: loop variable of "for attempt in range(...)"
    last_exception,  \* wrapper: last_exception
    delay,           \* wrapper: delay computed before time.sleep
    trace,           \* invocations of the operation and sleeps of the call
    outcome,         \* how the call ended
    exception,       \* classifier input: the exception given to should_retry
    cpc,             \* classifier position
    verdict,         \* classifier output: the value should_retry returned
    errinfo,         \* classifier output: what each parsed error says of itself
    include_docs,    \* format_error_response argument
    network,         \* whether a fetch of the documentation site would succeed
    envelope,        \* the value format_error_response returned
    batch,           \* the batch response given to handle_partial_failure
    ppc,             \* handle_partial_failure position
    pf_result,       \* what handle_partial_failure returned or raised
    reply,           \* what handle_call_tool gave the caller of a tool
    bo_base,         \* backoff: self.base_delay, in ms
    bo_attempt,      \* backoff: the attempt the next get_retry_delay is called with
    bo_draws,        \* backoff: the jitter draws of the calls made so far
    bo_delays,       \* backoff: the values get_retry_delay returned so far
    error_cache,     \* lookup: self._error_cache, from error type to documentation content
    lk_pc,           \* lookup: position of each task's lookup_documentation call
    lk_key,          \* lookup: cache_key of each task's call in progress
    lk_url,          \* lookup: doc_url of each task's call in progress
    lk_n,            \* lookup: how many calls each task has made
    lk_fetches,      \* lookup: how many fetches each task has begun
    lk_last,         \* lookup: how each task's latest finished call ended
    cc_max_retries,  \* concurrent calls: self.max_retries of the shared ErrorHandler
    cc_pc,           \* concurrent calls: position of each wrapper call
    cc_attempt,      \* concurrent calls: each call's loop variable attempt
    cc_last_exception, \* concurrent calls: each call's last_exception
    cc_trace,        \* concurrent calls: each call's invocations and sleeps
    cc_outcome       \* concurrent calls: how each call ended

retryVars == <<max_retries, base_delay, holding, origin, callee, pc, attempt,
               last_exception, delay, trace, outcome>>
classVars == <<exception, cpc, verdict, errinfo, include_docs, network, envelope>>
partialVars == <<batch, ppc, pf_result>>
toolVars == <<reply>>
backoffVars == <<bo_base, bo_attempt, bo_draws, bo_delays>>
lookupVars == <<error_cache, lk_pc, lk_key, lk_url, lk_n, lk_fetches, lk_last>>
callsVars == <<cc_max_retries, cc_pc, cc_attempt, cc_last_exception, cc_trace, cc_outcome>>
vars == <<max_retries, base_delay, holding, origin, callee, pc, attempt,
          last_exception, delay, trace, outcome, exception, cpc, verdict,
          errinfo, include_docs, network, envelope, batch, ppc, pf_result, reply,
          bo_base, bo_attempt, bo_draws, bo_delays,
          error_cache, lk_pc, lk_key, lk_url, lk_n, lk_fetches, lk_last,
          cc_max_retries, cc_pc, cc_attempt, cc_last_exception, cc_trace, cc_outcome>>

----------------------------------------------------------------------------
(* Bounds *)

MaxRetriesBound == 3
MaxErrors == 2
JitterSteps == 2
MaxResults == 3
MaxFailures == 2
MaxAttempt == 4
MaxTasks == 2
MaxLookups == 2
MaxCalls == 2

(* Program constants *)

MaxDelayMs == 60000
DefaultBaseDelayMs == 5000
BaseDelays == {DefaultBaseDelayMs, 40000}
BackoffBases == {1000, DefaultBaseDelayMs, 20000, 40000, 70000}

Min(a, b) == IF a <= b THEN a ELSE b

RECURSIVE Pow2(_)
Pow2(n) == IF n <= 0 THEN 1 ELSE 2 * Pow2(n - 1)

----------------------------------------------------------------------------
(* Error codes: the attributes dir(error_code) lists, in dir()'s sorted     *)
(* order, and the values they may hold.                                     *)

DirOrder == <<"_pb", "quota_error", "request_error">>
PrivateAttrs == {"_pb"}
CodeAttrs == {DirOrder[i] : i \in 1..Len(DirOrder)}
CodeValues == {"", "UNSPECIFIED", "RESOURCE_EXHAUSTED", "TRANSIENT_ERROR", "INVALID_INPUT"}
PrivateValues == {"UNSPECIFIED", "TRANSIENT_ERROR"}

ErrorCodes == {c \in [CodeAttrs -> CodeValues] :
                 \A a \in PrivateAttrs : c[a] \in PrivateValues}

retryable_codes == {"INTERNAL_ERROR", "TRANSIENT_ERROR", "DEADLINE_EXCEEDED",
                    "RESOURCE_EXHAUSTED", "QUOTA_ERROR"}

StartsWithUnderscore(attr) == attr \in PrivateAttrs

RECURSIVE is_retryable_from(_, _)
is_retryable_from(code, i) ==
    IF i > Len(DirOrder) THEN FALSE
    ELSE IF ~StartsWithUnderscore(DirOrder[i]) /\ code[DirOrder[i]] \in retryable_codes
         THEN TRUE
         ELSE is_retryable_from(code, i + 1)

RECURSIVE is_retryable_first_set_from(_, _)
is_retryable_first_set_from(code, i) ==
    IF i > Len(DirOrder) THEN FALSE
    ELSE IF ~StartsWithUnderscore(DirOrder[i]) /\ code[DirOrder[i]] \notin {"", "UNSPECIFIED"}
         THEN code[DirOrder[i]] \in retryable_codes
         ELSE is_retryable_first_set_from(code, i + 1)

is_retryable_first_set_only(code) == is_retryable_first_set_from(code, 1)

is_retryable(code) == is_retryable_from(code, 1)

\* truth value of a field value in "if value and ..."
Truthy(value) == value # ""

\* Strings the code builds are sequences of the pieces it joins
UNKNOWN_ERROR == <<"UNKNOWN_ERROR">>

RECURSIVE get_error_type_from(_, _)
get_error_type_from(code, i) ==
    IF i > Len(DirOrder) THEN UNKNOWN_ERROR
    ELSE LET attr == DirOrder[i]
             value == code[attr]
         IN  IF ~StartsWithUnderscore(attr) /\ Truthy(value) /\ value # "UNSPECIFIED"
             THEN <<attr, ".", value>>
             ELSE get_error_type_from(code, i + 1)

RECURSIVE get_error_type_any_field_from(_, _)
get_error_type_any_field_from(code, i) ==
    IF i > Len(DirOrder) THEN UNKNOWN_ERROR
    ELSE LET attr == DirOrder[i]
             value == code[attr]
         IN  IF ~StartsWithUnderscore(attr) /\ Truthy(value)
             THEN <<attr, ".", value>>
             ELSE get_error_type_any_field_from(code, i + 1)

get_error_type_keeps_unspecified(code) == get_error_type_any_field_from(code, 1)

get_error_type(code) == get_error_type_from(code, 1)

\* "." in error_type
HasDot(str) == \E i \in 1..Len(str) : str[i] = "."

\* error_type.split(".", 1)[0]
RECURSIVE BeforeDot(_)
BeforeDot(str) ==
    IF str = <<>> \/ Head(str) = "." THEN <<>>
    ELSE <<Head(str)>> \o BeforeDot(Tail(str))

\* category.lower().replace("_", "-") of the attribute names
LowerHyphen(piece) ==
    CASE piece = "quota_error"   -> "quota-error"
      [] piece = "request_error" -> "request-error"
      [] piece = "_pb"           -> "-pb"
      [] OTHER                   -> piece

DocBase == "https://developers.google.com/google-ads/api/reference/rpc/v20/errors#"
NoUrl == <<>>

get_documentation_url_with_leaf(code) ==
    LET error_type == get_error_type(code)
    IN  IF HasDot(error_type)
        THEN <<DocBase>> \o [i \in 1..Len(error_type) |-> LowerHyphen(error_type[i])]
        ELSE NoUrl

get_documentation_url(code) ==
    LET error_type == get_error_type(code)
    IN  IF HasDot(error_type)
        THEN <<DocBase>> \o [i \in 1..Len(BeforeDot(error_type)) |->
                                LowerHyphen(BeforeDot(error_type)[i])]
        ELSE NoUrl

----------------------------------------------------------------------------
(* Exceptions *)

Bases(cls) ==
    CASE cls = "GoogleAdsException"     -> {"GoogleAdsException", "Exception"}
      [] cls = "httpx.TimeoutException" -> {"httpx.TimeoutException", "httpx.TransportError", "Exception"}
      [] cls = "httpx.ConnectTimeout"   -> {"httpx.ConnectTimeout", "httpx.TimeoutException",
                                            "httpx.TransportError", "Exception"}
      [] cls = "httpx.ConnectError"     -> {"httpx.ConnectError", "httpx.NetworkError",
                                            "httpx.TransportError", "Exception"}
      [] cls = "httpx.ReadError"        -> {"httpx.ReadError", "httpx.NetworkError",
                                            "httpx.TransportError", "Exception"}
      [] cls = "ValueError"             -> {"ValueError", "Exception"}
      [] cls = "TypeError"              -> {"TypeError", "Exception"}
      [] cls = "KeyboardInterrupt"      -> {"KeyboardInterrupt"}
      [] OTHER                          -> {}

isinstance(e, cls) == cls \in Bases(e.cls)

PlainClasses == {"httpx.TimeoutException", "httpx.ConnectTimeout", "httpx.ConnectError",
                 "httpx.ReadError", "ValueError", "KeyboardInterrupt"}

NoException == [cls |-> "None", errors |-> <<>>, id |-> 0]

Exc(cls, errors, id) == [cls |-> cls, errors |-> errors, id |-> id]

parse_exception(e) == e.errors

RECURSIVE any_retryable(_, _)
any_retryable(errors, i) ==
    IF i > Len(errors) THEN FALSE
    ELSE IF is_retryable(errors[i]) THEN TRUE
         ELSE any_retryable(errors, i + 1)

should_retry_first_error_only(e) ==
    IF isinstance(e, "GoogleAdsException")
    THEN Len(parse_exception(e)) > 0 /\ is_retryable(parse_exception(e)[1])
    ELSE IF isinstance(e, "httpx.TimeoutException") \/ isinstance(e, "httpx.ConnectError")
         THEN TRUE
         ELSE FALSE

should_retry(e) ==
    IF isinstance(e, "GoogleAdsException")
    THEN any_retryable(parse_exception(e), 1)
    ELSE IF isinstance(e, "httpx.TimeoutException") \/ isinstance(e, "httpx.ConnectError")
         THEN TRUE
         ELSE FALSE

----------------------------------------------------------------------------
(* Backoff *)

get_retry_delay_uncapped(base, k, j) ==
    LET d == base * Pow2(k - 1)
    IN  d + (d * j) \div (10 * JitterSteps)

get_retry_delay_wraps(base, k, j) ==
    LET d == base * Pow2(k - 1)
    IN  (d + (d * j) \div (10 * JitterSteps)) % (MaxDelayMs + 1)

get_retry_delay_wide_jitter(base, k, j) ==
    LET d == base * Pow2(k - 1)
    IN  Min(d + (15 * d * j) \div (10 * JitterSteps), MaxDelayMs)

\* the jitter random.uniform(0, delay * 0.1) is drawn in JitterSteps equal steps
get_retry_delay(base, k, j) ==
    LET d == base * Pow2(k - 1)
        jitter == (d * j) \div (10 * JitterSteps)
    IN  Min(d + jitter, MaxDelayMs)

----------------------------------------------------------------------------
(* What one invocation of the remote operation can do *)

Values == {"rows", "partial_failure_response"}
NoValue == <<"none", 0>>

QuotaCode == [a \in CodeAttrs |->
                 IF a = "quota_error" THEN "RESOURCE_EXHAUSTED" ELSE "UNSPECIFIED"]
InvalidCode == [a \in CodeAttrs |->
                 IF a = "request_error" THEN "INVALID_INPUT" ELSE "UNSPECIFIED"]

OpFailures ==
    {<<"GoogleAdsException", errs>> :
        errs \in {<<>>, <<QuotaCode>>, <<InvalidCode>>, <<InvalidCode, QuotaCode>>}}
    \cup {<<cls, <<>> >> : cls \in {"httpx.TimeoutException", "httpx.ConnectError",
                                     "httpx.ReadError", "ValueError", "KeyboardInterrupt"}}

NoResult == [kind |-> "none", val |-> NoValue, exc |-> NoException]
Returned(v, id) == [kind |-> "return", val |-> <<v, id>>, exc |-> NoException]
Raised(f, id) == [kind |-> "raise", val |-> NoValue, exc |-> Exc(f[1], f[2], id)]

OpResults(id) == {Returned(v, id) : v \in Values} \cup {Raised(f, id) : f \in OpFailures}

InvokeEvent(k, r) == [ev |-> "invoke", attempt |-> k, res |-> r, delay |-> 0]
SleepEvent(k, d) == [ev |-> "sleep", attempt |-> k, res |-> NoResult, delay |-> d]

NoOutcome == [kind |-> "none", val |-> NoValue, exc |-> NoException]
OutcomeOf(r) == [kind |-> IF r.kind = "return" THEN "returned" ELSE "raised",
                 val |-> r.val, exc |-> r.exc]

RaiseLast_wrapped(e) == [kind |-> "raised", val |-> NoValue,
                         exc |-> Exc("RetryError", <<>>, 0)]

RaiseLast_returns(e) ==
    IF e = NoException THEN [kind |-> "returned", val |-> NoValue, exc |-> NoException]
    ELSE [kind |-> "raised", val |-> NoValue, exc |-> e]

\* "raise last_exception": raising None is a TypeError of the interpreter
RaiseLast(e) == [kind |-> "raised", val |-> NoValue,
                 exc |-> IF e = NoException THEN Exc("TypeError", <<>>, 0) ELSE e]

----------------------------------------------------------------------------
(* Objects the calling code can hold *)

ClientMembers == {"get_service", "get_type", "enums"}
ServiceMembers == {"search", "mutate_campaigns", "DEFAULT_ENDPOINT"}
CallableMembers == {"get_service", "get_type", "search", "mutate_campaigns"}

callable(name) == name \in CallableMembers

Obj(kind, of, name) == [kind |-> kind, of |-> of, name |-> name]
Nothing == Obj("none", "none", "none")

\* getattr on the real client or service: a bound method or a data value
getattr(of, name) == IF callable(name) THEN Obj("method", of, name)
                                        ELSE Obj("data", of, name)

\* ErrorHandler.with_retry(func): the wrapper around func
with_retry(attr) == Obj("wrapper", attr.of, attr.name)

RetryableGoogleAdsClient_getattr_unwrapped(name) == getattr("client", name)

RetryableGoogleAdsClient_getattr(name) ==
    LET attr == getattr("client", name)
    IN  IF name = "get_service"
        THEN Obj("wrapped_get_service", "client", name)
        ELSE attr

RetryableService_getattr_unwrapped(name) == getattr("service", name)

RetryableService_getattr(name) ==
    LET attr == getattr("service", name)
    IN  IF callable(name) THEN with_retry(attr) ELSE attr

\* what get_service hands back: the service itself or its retrying stand-in
ServiceFrom(getter) ==
    IF getter.kind = "wrapped_get_service"
    THEN Obj("RetryableService", "service", "GoogleAdsService")
    ELSE Obj("Service", "service", "GoogleAdsService")

----------------------------------------------------------------------------
(* The envelope of format_error_response and the tool layer's responses *)

envelope_is_retryable_all(errors) ==
    \A i \in 1..Len(errors) : is_retryable(errors[i])

\* "is_retryable": any(e.is_retryable() for e in errors)
envelope_is_retryable(errors) == any_retryable(errors, 1)

error_info_never_documented(code, docs) ==
    [type |-> get_error_type(code), is_retryable |-> is_retryable(code)]

error_info_always_documented(code, docs) ==
    [type |-> get_error_type(code), is_retryable |-> is_retryable(code)]
    @@ ("documentation_url" :> get_documentation_url(code))

\* error_info of one error: a dictionary that has the key documentation_url
\* only "if include_docs and (doc_url := error.get_documentation_url())"
\* (message, trigger and location are copied from the error as they are)
error_info(code, docs) ==
    LET doc_url == get_documentation_url(code)
        info == [type |-> get_error_type(code), is_retryable |-> is_retryable(code)]
    IN  IF docs /\ doc_url # NoUrl
        THEN info @@ ("documentation_url" :> doc_url)
        ELSE info

format_error_response(e, docs) ==
    LET errors == parse_exception(e)
    IN  [success |-> FALSE,
         error_count |-> Len(errors),
         errors |-> [i \in 1..Len(errors) |-> error_info(errors[i], docs)],
         is_retryable |-> envelope_is_retryable(errors)]

\* tools._tools_registry: one handler that lets every exception out
\* (tools.get_account_info) and one that answers a GoogleAdsException itself
\* (campaign_tools.create_campaign)
Registry == {"get_account_info", "create_campaign"}

\* "except GoogleAdsException as e: return self.error_handler.format_error_response(e)"
HandlerCatches(name) == name = "create_campaign"

\* str(e): the text of the exception
str_exception(e) == <<"str", e.cls, e.id>>

NoResponse == [kind |-> "none", body |-> <<>>, exc |-> NoException]
Content(body, e) == [kind |-> "content", body |-> body, exc |-> e]
Propagated(e) == [kind |-> "propagated", body |-> <<>>, exc |-> e]

\* the handler's try/except around the service call: what it returns or raises
handler_result(name, out) ==
    IF out.kind = "returned"
    THEN [kind |-> "return", body |-> [success |-> TRUE], exc |-> NoException]
    ELSE IF HandlerCatches(name) /\ isinstance(out.exc, "GoogleAdsException")
         THEN [kind |-> "return", body |-> format_error_response(out.exc, TRUE),
               exc |-> out.exc]
         ELSE [kind |-> "raise", body |-> <<>>, exc |-> out.exc]

error_response_always_detailed(e, name) ==
    format_error_response(e, TRUE)
    @@ [success |-> FALSE, error |-> str_exception(e), tool |-> name]

\* handle_call_tool's except clause: error_response, updated with the
\* envelope only when the class of the exception is named GoogleAdsException
error_response(e, name) ==
    LET base == [success |-> FALSE, error |-> str_exception(e), tool |-> name]
    IN  IF e.cls = "GoogleAdsException"
        THEN format_error_response(e, TRUE) @@ base
        ELSE base

\* handle_call_tool: the content returned to the caller, or the exception
\* that "except Exception" does not catch
handle_call_tool(name, h) ==
    IF h.kind = "return" THEN Content(h.body, h.exc)
    ELSE IF isinstance(h.exc, "Exception") THEN Content(error_response(h.exc, name), h.exc)
         ELSE Propagated(h.exc)

----------------------------------------------------------------------------
(* State machine of one call *)

RetryInit ==
    /\ max_retries \in 0..MaxRetriesBound
    /\ base_delay \in BaseDelays
    /\ holding = Nothing
    /\ origin = "none"
    /\ callee = Nothing
    /\ pc = "idle"
    /\ attempt = 0
    /\ last_exception = NoException
    /\ delay = 0
    /\ trace = <<>>
    /\ outcome = NoOutcome

ClassIdle ==
    /\ exception = NoException
    /\ cpc = "unused"
    /\ verdict = FALSE
    /\ errinfo = <<>>
    /\ include_docs = FALSE
    /\ network = "up"
    /\ envelope = <<>>

\* a response without partial_failure_error and without results
NoBatch == [has_pfe |-> FALSE, pfe_truthy |-> FALSE, errors |-> <<>>,
            has_results |-> FALSE, results |-> <<>>]

NoPfResult == [status |-> "none", exc |-> "none", success |-> FALSE,
               partial_failure |-> FALSE, results |-> <<>>, failures |-> <<>>]

PartialIdle ==
    /\ batch = NoBatch
    /\ ppc = "unused"
    /\ pf_result = NoPfResult

BackoffIdle ==
    /\ bo_base = DefaultBaseDelayMs
    /\ bo_attempt = 0
    /\ bo_draws = <<>>
    /\ bo_delays = <<>>

LookupIdle ==
    /\ error_cache = <<>>
    /\ lk_pc = <<>>
    /\ lk_key = <<>>
    /\ lk_url = <<>>
    /\ lk_n = <<>>
    /\ lk_fetches = <<>>
    /\ lk_last = <<>>

CallsIdle ==
    /\ cc_max_retries = 0
    /\ cc_pc = <<>>
    /\ cc_attempt = <<>>
    /\ cc_last_exception = <<>>
    /\ cc_trace = <<>>
    /\ cc_outcome = <<>>

ToolIdle == reply = NoResponse

Init == RetryInit /\ ClassIdle /\ PartialIdle /\ ToolIdle /\ BackoffIdle /\ LookupIdle /\ CallsIdle

\* auth.get_client: the domain operations' client handle
GetClient ==
    /\ pc = "idle" /\ holding = Nothing
    /\ holding' = Obj("GoogleAdsClient", "client", "client")
    /\ origin' = "domain"
    /\ UNCHANGED <<max_retries, base_delay, callee, pc, attempt, last_exception,
                   delay, trace, outcome>>

\* RetryableGoogleAdsClient(client, error_handler)
NewRetryableClient ==
    /\ pc = "idle" /\ holding = Nothing
    /\ holding' = Obj("RetryableGoogleAdsClient", "client", "client")
    /\ origin' = "standin"
    /\ UNCHANGED <<max_retries, base_delay, callee, pc, attempt, last_exception,
                   delay, trace, outcome>>

\* error_handler.with_retry(func) used as a decorator
Decorate ==
    /\ pc = "idle" /\ holding = Nothing
    /\ holding' = with_retry(Obj("method", "function", "operation"))
    /\ origin' = "decorator"
    /\ UNCHANGED <<max_retries, base_delay, callee, pc, attempt, last_exception,
                   delay, trace, outcome>>

\* attribute access on the held object
GetAttr ==
    /\ pc = "idle"
    /\ \/ /\ holding.kind = "GoogleAdsClient"
          /\ \E name \in ClientMembers : holding' = getattr("client", name)
       \/ /\ holding.kind = "RetryableGoogleAdsClient"
          /\ \E name \in ClientMembers : holding' = RetryableGoogleAdsClient_getattr(name)
       \/ /\ holding.kind = "Service"
          /\ \E name \in ServiceMembers : holding' = getattr("service", name)
       \/ /\ holding.kind = "RetryableService"
          /\ \E name \in ServiceMembers : holding' = RetryableService_getattr(name)
    /\ UNCHANGED <<max_retries, base_delay, origin, callee, pc, attempt,
                   last_exception, delay, trace, outcome>>

\* calling a bound method of the real client or service, or wrapped_get_service:
\* one invocation, whose exception propagates to the calling code
CallDirect ==
    /\ pc = "idle"
    /\ holding.kind \in {"method", "wrapped_get_service"}
    /\ callee' = holding
    /\ \E r \in OpResults(1) :
         /\ trace' = <<InvokeEvent(1, r)>>
         /\ IF r.kind = "return" /\ holding.name = "get_service"
            THEN /\ holding' = ServiceFrom(holding)
                 /\ pc' = "idle"
                 /\ outcome' = NoOutcome
            ELSE /\ holding' = Nothing
                 /\ pc' = "done"
                 /\ outcome' = OutcomeOf(r)
    /\ UNCHANGED <<max_retries, base_delay, origin, attempt, last_exception, delay>>

\* calling a with_retry wrapper: "last_exception = None", then the loop
CallWrapper ==
    /\ pc = "idle"
    /\ holding.kind = "wrapper"
    /\ callee' = holding
    /\ holding' = Nothing
    /\ pc' = "loop"
    /\ attempt' = 0
    /\ last_exception' = NoException
    /\ trace' = <<>>
    /\ UNCHANGED <<max_retries, base_delay, origin, delay, outcome>>

range_has_next_one_more(k, n) == k <= n

range_has_next_single(k, n) == k < n /\ k < 1

\* range(1, n + 1) has an item after k (k = 0 before the first item)
range_has_next(k, n) == k < n

\* the for statement takes the next attempt number
LoopNext ==
    /\ pc = "loop"
    /\ range_has_next(attempt, max_retries)
    /\ attempt' = attempt + 1
    /\ pc' = "invoke"
    /\ UNCHANGED <<max_retries, base_delay, holding, origin, callee,
                   last_exception, delay, trace, outcome>>

\* the for statement is exhausted: "raise last_exception"
LoopExit ==
    /\ pc = "loop"
    /\ ~range_has_next(attempt, max_retries)
    /\ outcome' = RaiseLast(last_exception)
    /\ pc' = "done"
    /\ UNCHANGED <<max_retries, base_delay, holding, origin, callee, attempt,
                   last_exception, delay, trace>>

assign_last_exception_keep_first(last, e) == IF last = NoException THEN e ELSE last

\* "last_exception = e"
assign_last_exception(last, e) == e

except_clause_burns_attempts(e, k, n) ==
    IF k < n THEN "sleep" ELSE "continue"

except_clause_sleeps_last(e, k, n) ==
    IF ~should_retry(e) THEN "raise" ELSE "sleep"

\* the body of "except Exception as e" at attempt k of n: re-raise, sleep
\* before the next attempt, or only log and go on to the end of the loop
except_clause(e, k, n) ==
    IF ~should_retry(e) THEN "raise"
    ELSE IF k < n THEN "sleep"
    ELSE "continue"

after_invocation_retries_partial(r, k, n) ==
    IF r.kind = "return" /\ r.val[1] = "partial_failure_response"
    THEN IF k < n THEN "sleep" ELSE "continue"
    ELSE IF r.kind = "return" THEN "return"
    ELSE IF ~isinstance(r.exc, "Exception") THEN "propagate"
    ELSE except_clause(r.exc, k, n)

\* what the try statement does with the result r of attempt k of n:
\* "return func(...)" returns whatever func returned; an exception that
\* "except Exception" does not catch propagates; the others go through the
\* except clause
after_invocation(r, k, n) ==
    IF r.kind = "return" THEN "return"
    ELSE IF ~isinstance(r.exc, "Exception") THEN "propagate"
    ELSE except_clause(r.exc, k, n)

\* "return func(*args, **kwargs)" and the except clause
Invoke ==
    /\ pc = "invoke"
    /\ \E r \in OpResults(attempt) :
         LET what == after_invocation(r, attempt, max_retries)
         IN  /\ trace' = Append(trace, InvokeEvent(attempt, r))
             /\ last_exception' = IF what \in {"return", "propagate"}
                                  THEN last_exception
                                  ELSE assign_last_exception(last_exception, r.exc)
             /\ CASE what \in {"return", "propagate", "raise"} ->
                       /\ outcome' = OutcomeOf(r)
                       /\ pc' = "done"
                       /\ UNCHANGED delay
                  [] what = "sleep" ->
                       /\ \E j \in 0..JitterSteps :
                            delay' = get_retry_delay(base_delay, attempt, j)
                       /\ pc' = "sleep"
                       /\ UNCHANGED outcome
                  [] OTHER ->
                       /\ pc' = "loop"
                       /\ UNCHANGED <<delay, outcome>>
    /\ UNCHANGED <<max_retries, base_delay, holding, origin, callee, attempt>>

\* time.sleep(delay) returns
Sleep ==
    /\ pc = "sleep"
    /\ trace' = Append(trace, SleepEvent(attempt, delay))
    /\ pc' = "loop"
    /\ UNCHANGED <<max_retries, base_delay, holding, origin, callee, attempt,
                   last_exception, delay, outcome>>

WrapperStep == LoopNext \/ LoopExit \/ Invoke \/ Sleep

\* tools.execute_tool raises ValueError before any handler runs: unknown tool
\* or missing required parameter
ExecuteToolRejects ==
    /\ pc = "idle" /\ holding = Nothing /\ origin = "none"
    /\ \E name \in Registry \cup {"no_such_tool"} :
         reply' = handle_call_tool(name,
                        [kind |-> "raise", body |-> <<>>, exc |-> Exc("ValueError", <<>>, 0)])
    /\ pc' = "responded"
    /\ UNCHANGED <<max_retries, base_delay, holding, origin, callee, attempt,
                   last_exception, delay, trace, outcome>>

\* server.handle_call_tool once the handler's service call has ended
HandleCallTool ==
    /\ pc = "done" /\ origin = "domain"
    /\ \E name \in Registry :
         reply' = handle_call_tool(name, handler_result(name, outcome))
    /\ pc' = "responded"
    /\ UNCHANGED <<max_retries, base_delay, holding, origin, callee, attempt,
                   last_exception, delay, trace, outcome>>

Next ==
    \/ (GetClient /\ UNCHANGED <<classVars, partialVars, toolVars, backoffVars, lookupVars, callsVars>>)
    \/ (NewRetryableClient /\ UNCHANGED <<classVars, partialVars, toolVars, backoffVars, lookupVars, callsVars>>)
    \/ (Decorate /\ UNCHANGED <<classVars, partialVars, toolVars, backoffVars, lookupVars, callsVars>>)
    \/ (GetAttr /\ UNCHANGED <<classVars, partialVars, toolVars, backoffVars, lookupVars, callsVars>>)
    \/ (CallDirect /\ UNCHANGED <<classVars, partialVars, toolVars, backoffVars, lookupVars, callsVars>>)
    \/ (CallWrapper /\ UNCHANGED <<classVars, partialVars, toolVars, backoffVars, lookupVars, callsVars>>)
    \/ (LoopNext /\ UNCHANGED <<classVars, partialVars, toolVars, backoffVars, lookupVars, callsVars>>)
    \/ (LoopExit /\ UNCHANGED <<classVars, partialVars, toolVars, backoffVars, lookupVars, callsVars>>)
    \/ (Invoke /\ UNCHANGED <<classVars, partialVars, toolVars, backoffVars, lookupVars, callsVars>>)
    \/ (Sleep /\ UNCHANGED <<classVars, partialVars, toolVars, backoffVars, lookupVars, callsVars>>)
    \/ (ExecuteToolRejects /\ UNCHANGED <<classVars, partialVars, backoffVars, lookupVars, callsVars>>)
    \/ (HandleCallTool /\ UNCHANGED <<classVars, partialVars, backoffVars, lookupVars, callsVars>>)

Spec == Init /\ [][Next]_vars

----------------------------------------------------------------------------
(* The classifier applied to every exception within the bounds *)

RECURSIVE SeqsUpTo(_, _)
SeqsUpTo(S, n) ==
    IF n = 0 THEN {<<>>}
    ELSE LET shorter == SeqsUpTo(S, n - 1)
         IN  shorter \cup {Append(q, x) : q \in shorter, x \in S}

AllExceptions ==
    {Exc("GoogleAdsException", errs, 1) : errs \in SeqsUpTo(ErrorCodes, MaxErrors)}
    \cup {Exc(cls, <<>>, 1) : cls \in PlainClasses}

RetryIdle ==
    /\ max_retries = MaxRetriesBound
    /\ base_delay = DefaultBaseDelayMs
    /\ holding = Nothing
    /\ origin = "none"
    /\ callee = Nothing
    /\ pc = "unused"
    /\ attempt = 0
    /\ last_exception = NoException
    /\ delay = 0
    /\ trace = <<>>
    /\ outcome = NoOutcome

ClassInit ==
    /\ RetryIdle
    /\ PartialIdle
    /\ ToolIdle
    /\ CallsIdle
    /\ LookupIdle
    /\ BackoffIdle
    /\ exception \in AllExceptions
    /\ cpc = "input"
    /\ verdict = FALSE
    /\ errinfo = <<>>
    /\ include_docs = FALSE
    /\ network = "up"
    /\ envelope = <<>>

\* error_handler.should_retry(exception)
ShouldRetry ==
    /\ cpc = "input"
    /\ verdict' = should_retry(exception)
    /\ cpc' = "classified"
    /\ UNCHANGED <<exception, errinfo, include_docs, network, envelope>>

\* GoogleAdsError(error) of one entry, asked for is_retryable(),
\* get_error_type() and get_documentation_url()
GoogleAdsError(code) ==
    [retryable |-> is_retryable(code),
     type |-> get_error_type(code),
     url |-> get_documentation_url(code)]

\* parse_exception(exception) and the three questions put to each error
ClassifyErrors ==
    /\ cpc = "classified"
    /\ isinstance(exception, "GoogleAdsException")
    /\ errinfo' = [i \in 1..Len(parse_exception(exception)) |->
                      GoogleAdsError(parse_exception(exception)[i])]
    /\ cpc' = "typed"
    /\ UNCHANGED <<exception, verdict, include_docs, network, envelope>>

\* error_handler.format_error_response(exception, include_docs), called
\* while the documentation site is reachable or not
FormatErrorResponse ==
    /\ cpc = "typed"
    /\ isinstance(exception, "GoogleAdsException")
    /\ \E docs \in BOOLEAN, net \in {"up", "down"} :
         /\ include_docs' = docs
         /\ network' = net
         /\ envelope' = format_error_response(exception, docs)
    /\ cpc' = "formatted"
    /\ UNCHANGED <<exception, verdict, errinfo>>

ClassNext ==
    \/ (ShouldRetry /\ UNCHANGED <<retryVars, partialVars, toolVars, backoffVars, lookupVars, callsVars>>)
    \/ (ClassifyErrors /\ UNCHANGED <<retryVars, partialVars, toolVars, backoffVars, lookupVars, callsVars>>)
    \/ (FormatErrorResponse /\ UNCHANGED <<retryVars, partialVars, toolVars, backoffVars, lookupVars, callsVars>>)

SpecClassify == ClassInit /\ [][ClassNext]_vars

\* every invocation of the operation and every sleep returns
FairSpec == Spec /\ WF_vars(WrapperStep /\ UNCHANGED <<classVars, partialVars, toolVars, backoffVars, lookupVars, callsVars>>)

----------------------------------------------------------------------------
(* handle_partial_failure applied to every batch response within the bounds *)

\* an entry of partial_failure_error.errors: field_path (when the entry has
\* the attribute: a list whose first element is the index of the failed
\* item), error_code, message, trigger, location ("" where empty or None)
NoFieldPath == [has |-> FALSE, path |-> <<>>]
FieldPaths == {NoFieldPath}
              \cup {[has |-> TRUE, path |-> <<>>]}
              \cup {[has |-> TRUE, path |-> <<i>>] : i \in 0..(MaxResults - 1)}

Texts == {[message |-> "", trigger |-> "", location |-> ""],
          [message |-> "rate limited", trigger |-> "", location |-> ""],
          [message |-> "bad value", trigger |-> "x", location |-> "operations[0]"]}

FailureEntries ==
    {[field_path |-> fp, error_code |-> c, message |-> t.message,
      trigger |-> t.trigger, location |-> t.location] :
        fp \in FieldPaths, c \in {QuotaCode, InvalidCode}, t \in Texts}

Item(i) == <<"result", i>>
ResultLists == {[k \in 1..n |-> Item(k - 1)] : n \in 0..MaxResults}

ResultsAttr == {<<FALSE, <<>> >>} \cup {<<TRUE, rs>> : rs \in ResultLists}

BatchResponses ==
    {[has_pfe |-> TRUE, pfe_truthy |-> TRUE, errors |-> errs,
      has_results |-> r[1], results |-> r[2]] :
        errs \in SeqsUpTo(FailureEntries, MaxFailures), r \in ResultsAttr}
    \cup
    {[has_pfe |-> h, pfe_truthy |-> FALSE, errors |-> <<>>,
      has_results |-> r[1], results |-> r[2]] :
        h \in BOOLEAN, r \in ResultsAttr}

\* " | ".join(parts)
RECURSIVE JoinParts(_)
JoinParts(parts) ==
    IF parts = <<>> THEN <<>>
    ELSE IF Len(parts) = 1 THEN parts[1]
    ELSE parts[1] \o <<" | ">> \o JoinParts(Tail(parts))

\* GoogleAdsError.__str__
GoogleAdsError_str(error) ==
    JoinParts(<< <<"Error: ">> \o get_error_type(error.error_code) >>
              \o (IF Truthy(error.message)
                  THEN << <<"Message: ", error.message>> >> ELSE <<>>)
              \o (IF Truthy(error.trigger)
                  THEN << <<"Trigger: ", error.trigger>> >> ELSE <<>>)
              \o (IF Truthy(error.location)
                  THEN << <<"Location: ", error.location>> >> ELSE <<>>))

NoneIndex == <<>>
IndexValue(i) == <<i>>

\* field_path[0] of an entry with a field_path raises on an empty list
IndexRaises(error) == error.field_path.has /\ error.field_path.path = <<>>

\* getattr(error, "field_path", [None])[0] if hasattr(error, "field_path") else None
failure_index(error) ==
    IF error.field_path.has THEN IndexValue(error.field_path.path[1]) ELSE NoneIndex

failure_info(error) == [index |-> failure_index(error), error |-> GoogleAdsError_str(error)]

index_matches_one_based(f, i) == f.index = IndexValue(i + 1)

\* f["index"] == i
index_matches(f, i) == f.index = IndexValue(i)

\* the loop over enumerate(response.results), from position i (0-based)
RECURSIVE successful_results(_, _, _)
successful_results(results, failures, i) ==
    IF i >= Len(results) THEN <<>>
    ELSE (IF ~(\E k \in 1..Len(failures) : index_matches(failures[k], i))
          THEN <<results[i + 1]>> ELSE <<>>)
         \o successful_results(results, failures, i + 1)

has_partial_failure_error_attr_only(response) == response.has_pfe

\* hasattr(response, "partial_failure_error") and response.partial_failure_error
has_partial_failure_error(response) == response.has_pfe /\ response.pfe_truthy

handle_partial_failure(response) ==
    LET in_branch == has_partial_failure_error(response)
        errors == IF in_branch THEN response.errors ELSE <<>>
    IN  IF \E k \in 1..Len(errors) : IndexRaises(errors[k])
        THEN [status |-> "raised", exc |-> "IndexError", success |-> FALSE,
              partial_failure |-> FALSE, results |-> <<>>, failures |-> <<>>]
        ELSE LET failures == [k \in 1..Len(errors) |-> failure_info(errors[k])]
             IN  [status |-> "returned", exc |-> "none", success |-> TRUE,
                  partial_failure |-> in_branch,
                  results |-> IF response.has_results
                              THEN successful_results(response.results, failures, 0)
                              ELSE <<>>,
                  failures |-> failures]

PartialInit ==
    /\ RetryIdle
    /\ ClassIdle
    /\ ToolIdle
    /\ CallsIdle
    /\ LookupIdle
    /\ BackoffIdle
    /\ batch \in BatchResponses
    /\ ppc = "input"
    /\ pf_result = NoPfResult

\* error_handler.handle_partial_failure(response)
HandlePartialFailure ==
    /\ ppc = "input"
    /\ pf_result' = handle_partial_failure(batch)
    /\ ppc' = "handled"
    /\ UNCHANGED batch

PartialNext == HandlePartialFailure /\ UNCHANGED <<retryVars, classVars, toolVars, backoffVars, lookupVars, callsVars>>

SpecPartial == PartialInit /\ [][PartialNext]_vars

----------------------------------------------------------------------------
(* get_retry_delay called for the successive attempts of one retry loop *)

BackoffInit ==
    /\ RetryIdle
    /\ ClassIdle
    /\ PartialIdle
    /\ ToolIdle
    /\ CallsIdle
    /\ LookupIdle
    /\ bo_base \in BackoffBases
    /\ bo_attempt = 1
    /\ bo_draws = <<>>
    /\ bo_delays = <<>>

\* error_handler.get_retry_delay(attempt), with one draw of the jitter
GetRetryDelay ==
    /\ bo_attempt <= MaxAttempt
    /\ \E j \in 0..JitterSteps :
         /\ bo_draws' = Append(bo_draws, j)
         /\ bo_delays' = Append(bo_delays, get_retry_delay(bo_base, bo_attempt, j))
    /\ bo_attempt' = bo_attempt + 1
    /\ UNCHANGED bo_base

BackoffNext ==
    GetRetryDelay /\ UNCHANGED <<retryVars, classVars, partialVars, toolVars, lookupVars, callsVars>>

SpecBackoff == BackoffInit /\ [][BackoffNext]_vars

----------------------------------------------------------------------------
(* lookup_documentation called by concurrent tasks on one ErrorHandler.  A   *)
(* coroutine runs without interruption from one await to the next, so a call *)
(* is two steps: up to the fetch, and from the fetch's outcome to the return *)

Tasks == 1..MaxTasks

\* the errors looked up: two of one category, one of another, one untyped
UnsetCode == [a \in CodeAttrs |-> "UNSPECIFIED"]
QuotaInvalidCode == [a \in CodeAttrs |->
                        IF a = "quota_error" THEN "INVALID_INPUT" ELSE "UNSPECIFIED"]
LookupErrors == {QuotaCode, QuotaInvalidCode, InvalidCode, UnsetCode}

\* what "await client.get(doc_url, timeout=10.0)" can do
FetchOutcomes ==
    {[kind |-> "response", status |-> st, exc |-> NoException] : st \in {200, 404, 503}}
    \cup {[kind |-> "raise", status |-> 0, exc |-> Exc(cls, <<>>, 0)] :
             cls \in {"httpx.TimeoutException", "httpx.ConnectTimeout",
                      "httpx.ConnectError", "httpx.ReadError", "ValueError"}}

NoContent == <<>>

\* content = f"Documentation: {doc_url}\n" + "See the official docs ..."
documentation_content(doc_url) ==
    <<"Documentation: ">> \o doc_url
    \o <<"\n", "See the official docs for detailed error explanations.">>

cache_store_per_call(cache, key, doc_url, o) ==
    IF o.kind = "response" /\ o.status = 200
    THEN (key :> (documentation_content(doc_url) \o <<Cardinality(DOMAIN cache)>>)) @@ cache
    ELSE cache

\* self._error_cache[cache_key] = content, under "if response.status_code == 200"
cache_store(cache, key, doc_url, o) ==
    IF o.kind = "response" /\ o.status = 200
    THEN (key :> documentation_content(doc_url)) @@ cache
    ELSE cache

after_fetch_lets_errors_out(doc_url, o) ==
    IF o.kind = "response"
    THEN [status |-> "returned",
          value |-> IF o.status = 200 THEN documentation_content(doc_url) ELSE NoContent,
          exc |-> NoException]
    ELSE IF isinstance(o.exc, "httpx.TimeoutException")
         THEN [status |-> "returned", value |-> NoContent, exc |-> NoException]
         ELSE [status |-> "raised", value |-> NoContent, exc |-> o.exc]

\* the try block after the fetch: return content on 200; "except Exception"
\* logs a warning and the function returns None
after_fetch(doc_url, o) ==
    IF o.kind = "response"
    THEN [status |-> "returned",
          value |-> IF o.status = 200 THEN documentation_content(doc_url) ELSE NoContent,
          exc |-> NoException]
    ELSE IF isinstance(o.exc, "Exception")
         THEN [status |-> "returned", value |-> NoContent, exc |-> NoException]
         ELSE [status |-> "raised", value |-> NoContent, exc |-> o.exc]

NoLookup == [key |-> <<>>, status |-> "none", value |-> NoContent, fetched |-> FALSE,
             outcome |-> "none"]
Finished(key, r, fetched, o) ==
    [key |-> key, status |-> r.status, value |-> r.value, fetched |-> fetched,
     outcome |-> o]

cache_hit_never(cache, key) == FALSE

\* if cache_key in self._error_cache
cache_hit(cache, key) == key \in DOMAIN cache

LookupInit ==
    /\ RetryIdle
    /\ ClassIdle
    /\ PartialIdle
    /\ ToolIdle
    /\ CallsIdle
    /\ BackoffIdle
    /\ error_cache = <<>>
    /\ lk_pc = [t \in Tasks |-> "idle"]
    /\ lk_key = [t \in Tasks |-> <<>>]
    /\ lk_url = [t \in Tasks |-> NoUrl]
    /\ lk_n = [t \in Tasks |-> 0]
    /\ lk_fetches = [t \in Tasks |-> 0]
    /\ lk_last = [t \in Tasks |-> NoLookup]

\* lookup_documentation(error) up to its first await: the cache check, the
\* derivation of the URL, and the start of the fetch
LookupStart(t) ==
    /\ lk_pc[t] = "idle"
    /\ lk_n[t] < MaxLookups
    /\ \E error \in LookupErrors :
         LET cache_key == get_error_type(error)
             doc_url == get_documentation_url(error)
         IN  /\ lk_n' = [lk_n EXCEPT ![t] = @ + 1]
             /\ IF cache_hit(error_cache, cache_key)
                THEN /\ lk_last' = [lk_last EXCEPT ![t] =
                           Finished(cache_key,
                                    [status |-> "returned", value |-> error_cache[cache_key]],
                                    FALSE, "none")]
                     /\ UNCHANGED <<lk_pc, lk_key, lk_url, lk_fetches>>
                ELSE IF doc_url = NoUrl
                THEN /\ lk_last' = [lk_last EXCEPT ![t] =
                           Finished(cache_key,
                                    [status |-> "returned", value |-> NoContent],
                                    FALSE, "none")]
                     /\ UNCHANGED <<lk_pc, lk_key, lk_url, lk_fetches>>
                ELSE /\ lk_pc' = [lk_pc EXCEPT ![t] = "fetch"]
                     /\ lk_key' = [lk_key EXCEPT ![t] = cache_key]
                     /\ lk_url' = [lk_url EXCEPT ![t] = doc_url]
                     /\ lk_fetches' = [lk_fetches EXCEPT ![t] = @ + 1]
                     /\ UNCHANGED lk_last
    /\ UNCHANGED error_cache

\* lookup_documentation from the outcome of the fetch to its return
FetchDone(t) ==
    /\ lk_pc[t] = "fetch"
    /\ \E o \in FetchOutcomes :
         /\ error_cache' = cache_store(error_cache, lk_key[t], lk_url[t], o)
         /\ lk_last' = [lk_last EXCEPT ![t] =
               Finished(lk_key[t], after_fetch(lk_url[t], o), TRUE,
                        IF o.kind = "response" /\ o.status = 200 THEN "ok" ELSE "failed")]
    /\ lk_pc' = [lk_pc EXCEPT ![t] = "idle"]
    /\ UNCHANGED <<lk_key, lk_url, lk_n, lk_fetches>>

LookupNext ==
    \/ \E t \in Tasks : LookupStart(t)
                         /\ UNCHANGED <<retryVars, classVars, partialVars, toolVars, backoffVars, callsVars>>
    \/ \E t \in Tasks : FetchDone(t)
                         /\ UNCHANGED <<retryVars, classVars, partialVars, toolVars, backoffVars, callsVars>>

SpecLookup == LookupInit /\ [][LookupNext]_vars

----------------------------------------------------------------------------
(* Several calls of with_retry wrappers of one ErrorHandler, interleaved:    *)
(* threads, since time.sleep blocks its thread.  attempt and last_exception  *)
(* are locals of wrapper; the calls share self.max_retries, which no call    *)
(* writes.                                                                   *)

CallIds == 1..MaxCalls

\* per attempt: a value, a retryable failure, a failure that is not retryable
CallResults(k) ==
    {Returned("rows", k),
     Raised(<<"GoogleAdsException", <<QuotaCode>> >>, k),
     Raised(<<"ValueError", <<>> >>, k)}

CallEvent(ev, k, r) == [ev |-> ev, attempt |-> k, res |-> r]

range_start_shared(attempts) ==
    IF attempts = <<>> THEN 0
    ELSE CHOOSE m \in {attempts[c] : c \in DOMAIN attempts} :
            \A c \in DOMAIN attempts : attempts[c] <= m

\* "for attempt in range(1, self.max_retries + 1)": each call iterates over a
\* range object of its own, from its start, whatever the attempts of the
\* other calls are
range_start(attempts) == 0

CallsInit ==
    /\ RetryIdle
    /\ ClassIdle
    /\ PartialIdle
    /\ ToolIdle
    /\ BackoffIdle
    /\ LookupIdle
    /\ cc_max_retries \in 0..MaxRetriesBound
    /\ cc_pc = [c \in CallIds |-> "idle"]
    /\ cc_attempt = [c \in CallIds |-> 0]
    /\ cc_last_exception = [c \in CallIds |-> NoException]
    /\ cc_trace = [c \in CallIds |-> <<>>]
    /\ cc_outcome = [c \in CallIds |-> NoOutcome]

\* wrapper(*args, **kwargs) is called: "last_exception = None" and the for
\* statement
CallStart(c) ==
    /\ cc_pc[c] = "idle"
    /\ cc_pc' = [cc_pc EXCEPT ![c] = "loop"]
    /\ cc_attempt' = [cc_attempt EXCEPT ![c] = range_start(cc_attempt)]
    /\ cc_last_exception' = [cc_last_exception EXCEPT ![c] = NoException]
    /\ UNCHANGED <<cc_max_retries, cc_trace, cc_outcome>>

\* the for statement of one call: the next attempt, or "raise last_exception"
CallLoop(c) ==
    /\ cc_pc[c] = "loop"
    /\ IF range_has_next(cc_attempt[c], cc_max_retries)
       THEN /\ cc_attempt' = [cc_attempt EXCEPT ![c] = @ + 1]
            /\ cc_pc' = [cc_pc EXCEPT ![c] = "invoke"]
            /\ UNCHANGED cc_outcome
       ELSE /\ cc_outcome' = [cc_outcome EXCEPT ![c] = RaiseLast(cc_last_exception[c])]
            /\ cc_pc' = [cc_pc EXCEPT ![c] = "done"]
            /\ UNCHANGED cc_attempt
    /\ UNCHANGED <<cc_max_retries, cc_last_exception, cc_trace>>

\* the try statement of one call
CallInvoke(c) ==
    /\ cc_pc[c] = "invoke"
    /\ \E r \in CallResults(cc_attempt[c]) :
         LET what == after_invocation(r, cc_attempt[c], cc_max_retries)
         IN  /\ cc_trace' = [cc_trace EXCEPT ![c] =
                               Append(@, CallEvent("invoke", cc_attempt[c], r))]
             /\ cc_last_exception' =
                   IF what \in {"return", "propagate"} THEN cc_last_exception
                   ELSE [cc_last_exception EXCEPT ![c] = assign_last_exception(@, r.exc)]
             /\ CASE what \in {"return", "propagate", "raise"} ->
                        /\ cc_outcome' = [cc_outcome EXCEPT ![c] = OutcomeOf(r)]
                        /\ cc_pc' = [cc_pc EXCEPT ![c] = "done"]
                    [] what = "sleep" ->
                        /\ cc_pc' = [cc_pc EXCEPT ![c] = "sleep"]
                        /\ UNCHANGED cc_outcome
                    [] OTHER ->
                        /\ cc_pc' = [cc_pc EXCEPT ![c] = "loop"]
                        /\ UNCHANGED cc_outcome
    /\ UNCHANGED <<cc_max_retries, cc_attempt>>

\* time.sleep(delay) of one call returns
CallSleep(c) ==
    /\ cc_pc[c] = "sleep"
    /\ cc_trace' = [cc_trace EXCEPT ![c] =
                      Append(@, CallEvent("sleep", cc_attempt[c], NoResult))]
    /\ cc_pc' = [cc_pc EXCEPT ![c] = "loop"]
    /\ UNCHANGED <<cc_max_retries, cc_attempt, cc_last_exception, cc_outcome>>

CallsNext ==
    \/ \E c \in CallIds : CallStart(c)
          /\ UNCHANGED <<retryVars, classVars, partialVars, toolVars, backoffVars, lookupVars>>
    \/ \E c \in CallIds : CallLoop(c)
          /\ UNCHANGED <<retryVars, classVars, partialVars, toolVars, backoffVars, lookupVars>>
    \/ \E c \in CallIds : CallInvoke(c)
          /\ UNCHANGED <<retryVars, classVars, partialVars, toolVars, backoffVars, lookupVars>>
    \/ \E c \in CallIds : CallSleep(c)
          /\ UNCHANGED <<retryVars, classVars, partialVars, toolVars, backoffVars, lookupVars>>

SpecCalls == CallsInit /\ [][CallsNext]_vars

----------------------------------------------------------------------------
(* Vocabulary of the properties *)

InvokeIdx == {i \in 1..Len(trace) : trace[i].ev = "invoke"}
SleepIdx == {i \in 1..Len(trace) : trace[i].ev = "sleep"}
Invocations == Cardinality(InvokeIdx)
Sleeps == Cardinality(SleepIdx)

WrappedCall == callee.kind = "wrapper"
Failure(ev) == ev.ev = "invoke" /\ ev.res.kind = "raise"
Success(ev) == ev.ev = "invoke" /\ ev.res.kind = "return"
RetryableFailure(ev) == Failure(ev) /\ should_retry(ev.res.exc)
NonRetryableFailure(ev) == Failure(ev) /\ ~should_retry(ev.res.exc)

LastIdx == CHOOSE i \in InvokeIdx : \A k \in InvokeIdx : k <= i
LastInvoke == trace[LastIdx]

RaisedOutcome(e) == [kind |-> "raised", val |-> NoValue, exc |-> e]
ReturnedOutcome(v) == [kind |-> "returned", val |-> v, exc |-> NoException]

----------------------------------------------------------------------------
\* C1: in a with_retry call with max_retries >= 1, an attempt that raises an
\* exception for which should_retry is false ends the call at once: it is the
\* last event (no sleep, no further invocation) and the call raises that very
\* exception; a call all of whose attempts raised non-retryable errors has
\* invoked the operation exactly once.
C1_FailFast ==
    (WrappedCall /\ max_retries >= 1) =>
        /\ \A i \in 1..Len(trace) :
              NonRetryableFailure(trace[i]) =>
                 /\ i = Len(trace)
                 /\ pc = "done"
                 /\ outcome = RaisedOutcome(trace[i].res.exc)
        /\ (pc = "done" /\ \A i \in InvokeIdx : NonRetryableFailure(trace[i]))
              => Invocations = 1

C1_Witness ==
    /\ WrappedCall /\ max_retries = MaxRetriesBound /\ pc = "done"
    /\ Invocations = 1 /\ Sleeps = 0
    /\ NonRetryableFailure(trace[1])
    /\ trace[1].res.exc.cls = "GoogleAdsException"
    /\ outcome.kind = "raised"

\* C2: with max_retries = N >= 1, a call whose every attempt raised a
\* retryable error has invoked the operation exactly N times and raises the
\* exception of the N-th attempt itself.
C2_RetryExhaustion ==
    (WrappedCall /\ max_retries >= 1 /\ pc = "done"
       /\ \A i \in InvokeIdx : RetryableFailure(trace[i]))
    => /\ Invocations = max_retries
       /\ LastInvoke.attempt = max_retries
       /\ outcome = RaisedOutcome(LastInvoke.res.exc)
       /\ outcome.exc.id = max_retries

C2_Witness ==
    /\ WrappedCall /\ max_retries = 3 /\ pc = "done"
    /\ Invocations = 3
    /\ \A i \in InvokeIdx : RetryableFailure(trace[i])
    /\ trace[1].res.exc.cls # LastInvoke.res.exc.cls
    /\ outcome.exc.id = 3

\* C3: an attempt that succeeds is the last event of the call, the call
\* returns its value, and it is attempt k+1 after exactly k retryable
\* failures, k < max_retries; and after k < max_retries retryable failures
\* the call has not ended, so that attempt k+1 is made.
C3_SuccessAfterTransient ==
    (WrappedCall /\ max_retries >= 1) =>
        /\ \A i \in 1..Len(trace) :
              Success(trace[i]) =>
                 /\ i = Len(trace)
                 /\ pc = "done"
                 /\ outcome = ReturnedOutcome(trace[i].res.val)
                 /\ Invocations = trace[i].attempt
                 /\ trace[i].attempt <= max_retries
                 /\ \A k \in InvokeIdx : k < i => RetryableFailure(trace[k])
                 /\ Cardinality({k \in InvokeIdx : k < i}) = trace[i].attempt - 1
        /\ (Invocations >= 1 /\ RetryableFailure(LastInvoke)
              /\ LastInvoke.attempt < max_retries) => pc # "done"

C3_Witness ==
    /\ WrappedCall /\ max_retries = 3 /\ pc = "done"
    /\ Invocations = 2 /\ Sleeps = 1
    /\ RetryableFailure(trace[1])
    /\ Success(trace[3])
    /\ outcome.kind = "returned" /\ outcome.val = <<"rows", 2>>

\* C4: the operation is never invoked more than max_retries times in a
\* with_retry call, and a call that has started ends (returns or raises) when
\* every invocation and every sleep returns.
C4_BoundedTermination ==
    /\ [](WrappedCall => Invocations <= max_retries)
    /\ ((pc \in {"loop", "invoke", "sleep"}) ~> (pc = "done"))

C4_Witness ==
    /\ WrappedCall /\ pc = "done"
    /\ max_retries = MaxRetriesBound
    /\ Invocations = max_retries
    /\ Sleeps = max_retries - 1

\* C5: a completed with_retry call with max_retries >= 1 either returns
\* the value its final invocation returned or raises the exception its final
\* invocation raised, nothing else.
C5_TerminalOutcomes ==
    (WrappedCall /\ max_retries >= 1 /\ pc = "done") =>
        /\ Invocations >= 1
        /\ LastIdx = Len(trace)
        /\ \/ Success(LastInvoke) /\ outcome = ReturnedOutcome(LastInvoke.res.val)
           \/ Failure(LastInvoke) /\ outcome = RaisedOutcome(LastInvoke.res.exc)

C5_Witness ==
    /\ WrappedCall /\ max_retries = 2 /\ pc = "done"
    /\ Invocations = 2
    /\ RetryableFailure(trace[1]) /\ RetryableFailure(LastInvoke)
    /\ trace[1].res.exc.cls = "httpx.TimeoutException"
    /\ LastInvoke.res.exc.cls = "GoogleAdsException"
    /\ outcome = RaisedOutcome(LastInvoke.res.exc)

PossibleDelays(k) == {get_retry_delay(base_delay, k, j) : j \in 0..JitterSteps}

\* the order of sleeps and attempts within one with_retry call
SleepOrder ==
    /\ Len(trace) > 0 => (trace[1].ev = "invoke" /\ trace[1].attempt = 1)
    /\ \A i \in SleepIdx :
          /\ i > 1
          /\ RetryableFailure(trace[i - 1])
          /\ trace[i - 1].attempt = trace[i].attempt
          /\ trace[i].attempt < max_retries
          /\ trace[i].delay \in PossibleDelays(trace[i].attempt)
          /\ i < Len(trace) =>
                (trace[i + 1].ev = "invoke" /\ trace[i + 1].attempt = trace[i].attempt + 1)
    /\ \A i \in InvokeIdx :
          IF RetryableFailure(trace[i]) /\ trace[i].attempt < max_retries
          THEN IF i = Len(trace) THEN pc = "sleep" ELSE trace[i + 1].ev = "sleep"
          ELSE i = Len(trace) /\ pc \in {"loop", "done"}

\* C6 as stated: in every with_retry call the sleeps sit exactly between a
\* retryable failure at attempt k < max_retries and attempt k+1, with a
\* delay get_retry_delay(k), and a completed call has slept once less than
\* it has invoked the operation.
C6_Original ==
    WrappedCall =>
        /\ SleepOrder
        /\ pc = "done" => Sleeps = Invocations - 1

\* C6 (amended): the same, for max_retries >= 1.
C6_SleepOrdering ==
    (WrappedCall /\ max_retries >= 1) =>
        /\ SleepOrder
        /\ pc = "done" => Sleeps = Invocations - 1

C6_Witness ==
    /\ WrappedCall /\ max_retries = 3 /\ pc = "done"
    /\ Len(trace) = 5
    /\ trace[2].ev = "sleep" /\ trace[4].ev = "sleep"
    /\ trace[2].delay < trace[4].delay
    /\ RetryableFailure(trace[5])

----------------------------------------------------------------------------
\* C7: a remote call issued by a domain operation goes through the retrying
\* proxy: when its first attempt raises a retryable error and max_retries > 1
\* the call is attempted again before the failure reaches the operation.
C7_DomainCallsRetried ==
    (origin = "domain" /\ callee.of = "service" /\ pc = "done"
       /\ max_retries > 1 /\ Len(trace) >= 1 /\ RetryableFailure(trace[1]))
    => (WrappedCall /\ Invocations >= 2)

\* the services reached from the client stand-in are retrying stand-ins
StandinServicesWrapped ==
    holding.kind \in {"Service", "RetryableService"} => holding.kind = "RetryableService"

\* C8 as stated: every method call on the client stand-in, get_service
\* included, is retried on a retryable failure, and every service obtained
\* through get_service is a retrying stand-in.
C8_Original ==
    origin = "standin" =>
        /\ StandinServicesWrapped
        /\ (callee.of = "client" /\ pc = "done" /\ max_retries > 1
              /\ Len(trace) >= 1 /\ RetryableFailure(trace[1]))
           => (WrappedCall /\ Invocations >= 2)

\* C8 (amended): every service obtained through get_service on the client
\* stand-in is a retrying stand-in, but the client's own methods, get_service
\* included, are not retried: the underlying method is invoked once, without
\* sleep, and its result or exception is the result of the call.
C8_ClientStandin ==
    origin = "standin" =>
        /\ StandinServicesWrapped
        /\ holding.of = "client" => holding.kind # "wrapper"
        /\ callee.of = "client" =>
              /\ ~WrappedCall
              /\ Invocations = 1 /\ Sleeps = 0
              /\ pc = "done" => outcome = OutcomeOf(trace[1].res)

C8_Witness ==
    /\ origin = "standin"
    /\ holding.kind = "RetryableService"
    /\ callee.name = "get_service" /\ callee.kind = "wrapped_get_service"
    /\ Invocations = 1 /\ Success(trace[1])

\* C9: a callable member read off a RetryableService is the with_retry
\* wrapper of that member and runs the retry loop when called; a data
\* attribute is the underlying service's value itself, and reading it invokes
\* nothing.
C9_ServicePassThrough ==
    origin = "standin" =>
        /\ (holding.of = "service" /\ holding.kind # "RetryableService") =>
              IF callable(holding.name)
              THEN holding = with_retry(getattr("service", holding.name))
              ELSE /\ holding = getattr("service", holding.name)
                   /\ holding.kind = "data"
                   /\ callee.name = "get_service" /\ Len(trace) = 1 /\ pc = "idle"
        /\ callee.of = "service" =>
              /\ WrappedCall
              /\ callable(callee.name)
              /\ (pc = "done" /\ max_retries >= 1
                    /\ \A i \in InvokeIdx : RetryableFailure(trace[i]))
                 => Invocations = max_retries

C9_Witness ==
    /\ origin = "standin"
    /\ holding = [kind |-> "data", of |-> "service", name |-> "DEFAULT_ENDPOINT"]
    /\ Invocations = 1 /\ pc = "idle"

TransportTimeoutOrConnect ==
    {"httpx.TimeoutException", "httpx.ConnectTimeout", "httpx.ConnectError"}

\* C10: should_retry is true exactly for a GoogleAdsException with at least
\* one retryable error and for a transport timeout or connection error.
C10_ShouldRetry ==
    cpc = "classified" =>
        (verdict <=>
            \/ /\ exception.cls = "GoogleAdsException"
               /\ \E i \in 1..Len(exception.errors) : is_retryable(exception.errors[i])
            \/ exception.cls \in TransportTimeoutOrConnect)

C10_Witness ==
    /\ cpc = "classified"
    /\ exception.cls = "GoogleAdsException"
    /\ Len(exception.errors) = 2
    /\ ~is_retryable(exception.errors[1])
    /\ is_retryable(exception.errors[2])
    /\ verdict = TRUE

----------------------------------------------------------------------------
(* Vocabulary of the classifier's properties *)

PublicAttrs == CodeAttrs \ PrivateAttrs
RetryableSet == {"INTERNAL_ERROR", "TRANSIENT_ERROR", "DEADLINE_EXCEEDED",
                 "RESOURCE_EXHAUSTED", "QUOTA_ERROR"}
Errors == exception.errors
Typed == cpc \in {"typed", "formatted"}
SetValue(v) == v \notin {"", "UNSPECIFIED"}
Position(a) == CHOOSE i \in 1..Len(DirOrder) : DirOrder[i] = a
FirstSet(code, a) ==
    /\ a \in PublicAttrs /\ SetValue(code[a])
    /\ \A b \in PublicAttrs : SetValue(code[b]) => Position(a) <= Position(b)

\* C11: is_retryable is true exactly when some public field of the code
\* holds a value of the retryable set, whichever field it is and whatever
\* the fields before it hold.
C11_IsRetryable ==
    Typed =>
        \A i \in 1..Len(Errors) :
            errinfo[i].retryable <=>
                (\E a \in PublicAttrs : Errors[i][a] \in RetryableSet)

C11_Witness ==
    /\ Typed /\ Len(Errors) = 1
    /\ Errors[1]["quota_error"] = "INVALID_INPUT"
    /\ Errors[1]["request_error"] = "TRANSIENT_ERROR"
    /\ errinfo[1].retryable

\* C12: get_error_type returns "<field>.<value>" for the first public field,
\* in scan order, whose value is set and not UNSPECIFIED, and UNKNOWN_ERROR
\* exactly when there is no such field.
C12_GetErrorType ==
    Typed =>
        \A i \in 1..Len(Errors) :
            /\ \A a \in PublicAttrs :
                  FirstSet(Errors[i], a) => errinfo[i].type = <<a, ".", Errors[i][a]>>
            /\ errinfo[i].type = <<"UNKNOWN_ERROR">>
                  <=> (\A a \in PublicAttrs : ~SetValue(Errors[i][a]))

C12_Witness ==
    /\ Typed /\ Len(Errors) = 1
    /\ Errors[1]["_pb"] = "TRANSIENT_ERROR"
    /\ Errors[1]["quota_error"] = "UNSPECIFIED"
    /\ Errors[1]["request_error"] = "INVALID_INPUT"
    /\ errinfo[1].type = <<"request_error", ".", "INVALID_INPUT">>

\* C13 as stated: an error carrying a retryable value X in any public field,
\* whatever the other fields hold, is retryable, has the error type
\* "<category>.X", and makes should_retry true for its exception.
C13_Original ==
    Typed =>
        \A i \in 1..Len(Errors) : \A a \in PublicAttrs :
            Errors[i][a] \in RetryableSet =>
                /\ errinfo[i].retryable
                /\ errinfo[i].type = <<a, ".", Errors[i][a]>>
                /\ verdict

\* C13 (amended): such an error is retryable and makes should_retry true;
\* get_error_type names X when X's field is the first public field, in scan
\* order, with a set value other than UNSPECIFIED, and otherwise names the
\* value of that earlier field.
C13_RetryableAgreement ==
    Typed =>
        \A i \in 1..Len(Errors) : \A a \in PublicAttrs :
            Errors[i][a] \in RetryableSet =>
                /\ errinfo[i].retryable
                /\ verdict
                /\ FirstSet(Errors[i], a) => errinfo[i].type = <<a, ".", Errors[i][a]>>
                /\ \A b \in PublicAttrs :
                      (FirstSet(Errors[i], b) /\ b # a) =>
                          errinfo[i].type = <<b, ".", Errors[i][b]>>

C13_Witness ==
    /\ Typed /\ Len(Errors) = 2
    /\ Errors[1]["request_error"] = "INVALID_INPUT" /\ ~errinfo[1].retryable
    /\ Errors[2]["quota_error"] = "RESOURCE_EXHAUSTED"
    /\ Errors[2]["request_error"] = ""
    /\ errinfo[2].retryable
    /\ errinfo[2].type = <<"quota_error", ".", "RESOURCE_EXHAUSTED">>
    /\ verdict

----------------------------------------------------------------------------
PartialFailureReturn(ev) == Success(ev) /\ ev.res.val[1] = "partial_failure_response"

\* C14: an invocation that returns a response carrying a partial failure ends
\* the with_retry call: nothing is invoked and nothing sleeps after it, the
\* call returns that response, and when it is the first attempt the
\* operation has been invoked exactly once without any sleep.
C14_PartialFailureNotRetried ==
    WrappedCall =>
        \A i \in 1..Len(trace) :
            PartialFailureReturn(trace[i]) =>
                /\ i = Len(trace)
                /\ pc = "done"
                /\ outcome = ReturnedOutcome(trace[i].res.val)
                /\ trace[i].attempt = 1 => (Invocations = 1 /\ Sleeps = 0)

C14_Witness ==
    /\ WrappedCall /\ max_retries = MaxRetriesBound /\ pc = "done"
    /\ Len(trace) = 1
    /\ PartialFailureReturn(trace[1])
    /\ outcome.val = <<"partial_failure_response", 1>>

----------------------------------------------------------------------------
(* Vocabulary of the partial-failure properties *)

Entries == batch.errors
HasIndicator == batch.has_pfe /\ batch.pfe_truthy
Localized(e) == e.field_path.has /\ e.field_path.path # <<>>
Unlocalized(e) == ~e.field_path.has \/ e.field_path.path = <<>>
FailedIndices == {Entries[k].field_path.path[1] :
                     k \in {m \in 1..Len(Entries) : Localized(Entries[m])}}
NotFailed(item) == item[2] \notin FailedIndices

\* C15: for a response with n results whose partial-failure entries all
\* carry an index within 0..n-1, handle_partial_failure returns
\* partial_failure = true, one failures entry per entry, with its index and
\* the stringified error, and as results exactly the results at the indices
\* without failure, in their order.
C15_IndexIntegrity ==
    (ppc = "handled" /\ HasIndicator /\ batch.has_results
       /\ \A k \in 1..Len(Entries) :
             Localized(Entries[k]) /\ Entries[k].field_path.path[1] < Len(batch.results))
    => /\ pf_result.status = "returned"
       /\ pf_result.partial_failure
       /\ Len(pf_result.failures) = Len(Entries)
       /\ \A k \in 1..Len(Entries) :
             /\ pf_result.failures[k].index = <<Entries[k].field_path.path[1]>>
             /\ pf_result.failures[k].error[1] = "Error: "
             /\ pf_result.failures[k].error[2] \in PublicAttrs
       /\ pf_result.results = SelectSeq(batch.results, NotFailed)
       /\ Len(pf_result.results) = Len(batch.results) - Cardinality(FailedIndices)

C15_Witness ==
    /\ ppc = "handled" /\ HasIndicator
    /\ Len(batch.results) = 3
    /\ Len(Entries) = 2
    /\ Entries[1].field_path.path = <<2>> /\ Entries[2].field_path.path = <<0>>
    /\ pf_result.results = << <<"result", 1>> >>
    /\ Len(pf_result.failures) = 2

\* C16: an entry without index (field_path missing or empty) does not keep
\* handle_partial_failure from returning; it is recorded in failures with
\* index None and removes no item from results.
C16_UnlocalizedFailures ==
    (ppc = "handled" /\ HasIndicator
       /\ \E k \in 1..Len(Entries) : Unlocalized(Entries[k]))
    => /\ pf_result.status = "returned"
       /\ Len(pf_result.failures) = Len(Entries)
       /\ \A k \in 1..Len(Entries) :
             Unlocalized(Entries[k]) => pf_result.failures[k].index = <<>>
       /\ batch.has_results =>
             pf_result.results = SelectSeq(batch.results, NotFailed)

----------------------------------------------------------------------------
(* Vocabulary of the envelope's properties *)

Formatted == cpc = "formatted"
Documented(entry) == "documentation_url" \in DOMAIN entry
Resolvable(code) == \E a \in PublicAttrs : SetValue(code[a])

\* C17: the envelope's is_retryable flag is true exactly when one of its
\* entries is retryable, and equals should_retry of the same exception
\* (false when there is no error).
C17_EnvelopeRetryable ==
    Formatted =>
        /\ envelope.is_retryable <=>
              (\E i \in 1..Len(envelope.errors) : envelope.errors[i].is_retryable)
        /\ envelope.is_retryable = verdict
        /\ Len(Errors) = 0 => ~envelope.is_retryable

C17_Witness ==
    /\ Formatted /\ Len(Errors) = 2
    /\ ~envelope.errors[1].is_retryable
    /\ envelope.errors[2].is_retryable
    /\ envelope.is_retryable /\ verdict

\* C18: the envelope has success = false, error_count = the number of
\* errors = the length of its errors list, one entry per error in order, and
\* an entry has a documentation_url exactly when include_docs is true and a
\* URL is resolvable for its error.
C18_EnvelopeShape ==
    Formatted =>
        /\ envelope.success = FALSE
        /\ envelope.error_count = Len(Errors)
        /\ Len(envelope.errors) = Len(Errors)
        /\ \A i \in 1..Len(Errors) :
              /\ envelope.errors[i].type = errinfo[i].type
              /\ envelope.errors[i].is_retryable = errinfo[i].retryable
              /\ Documented(envelope.errors[i])
                    <=> (include_docs /\ Resolvable(Errors[i]))
              /\ Documented(envelope.errors[i]) =>
                    /\ envelope.errors[i].documentation_url = errinfo[i].url
                    /\ envelope.errors[i].documentation_url[1] = DocBase

C18_Witness ==
    /\ Formatted /\ include_docs /\ Len(Errors) = 2
    /\ Errors[1] # Errors[2]
    /\ Documented(envelope.errors[1])
    /\ ~Documented(envelope.errors[2])
    /\ envelope.error_count = 2

\* C20 as stated: when the documentation fetch fails,
\* format_error_response(failure, include_docs=True) returns and the entries,
\* whose documentation could not be fetched, carry no documentation_url.
C20_Original ==
    (Formatted /\ include_docs /\ network = "down") =>
        /\ envelope.error_count = Len(Errors)
        /\ \A i \in 1..Len(envelope.errors) : ~Documented(envelope.errors[i])

\* C20 (amended): format_error_response fetches nothing: when the
\* documentation fetch would fail it returns all the same, and an entry
\* carries the documentation_url derived from its error type whenever one is
\* derivable.
C20_DocsWithoutFetch ==
    (Formatted /\ include_docs /\ network = "down") =>
        /\ envelope.success = FALSE
        /\ envelope.error_count = Len(Errors)
        /\ \A i \in 1..Len(envelope.errors) :
              IF errinfo[i].type = <<"UNKNOWN_ERROR">>
              THEN ~Documented(envelope.errors[i])
              ELSE /\ Documented(envelope.errors[i])
                   /\ envelope.errors[i].documentation_url =
                         <<DocBase, LowerHyphen(errinfo[i].type[1])>>

C20_Witness ==
    /\ Formatted /\ include_docs /\ network = "down"
    /\ Len(Errors) = 1
    /\ envelope.errors[1].type = <<"quota_error", ".", "RESOURCE_EXHAUSTED">>
    /\ Documented(envelope.errors[1])
    /\ envelope.errors[1].documentation_url = <<DocBase, "quota-error">>

----------------------------------------------------------------------------
(* Vocabulary of the tool layer's properties *)

Responded == pc = "responded"
ToolFailed == Responded /\ reply.exc # NoException
Structured(body) == {"error_count", "is_retryable", "errors"} \subseteq DOMAIN body
Opaque(body) == DOMAIN body = {"success", "error", "tool"}

----------------------------------------------------------------------------
(* Vocabulary of the backoff's properties *)

Uncapped(k) == bo_base * Pow2(k - 1)
Calls == 1..Len(bo_delays)
NoJitter == \A k \in Calls : bo_draws[k] = 0

\* C25: get_retry_delay(k) is min(d + j, cap) with d = base_delay * 2^(k-1)
\* and 0 <= j <= d / 10: never below min(d, cap), never above the cap of 60 s.
C25_BackoffValue ==
    \A k \in Calls :
        LET d == Uncapped(k)
        IN  /\ \E j \in 0..(d \div 10) : bo_delays[k] = Min(d + j, MaxDelayMs)
            /\ bo_delays[k] >= Min(d, MaxDelayMs)
            /\ bo_delays[k] <= MaxDelayMs

C25_Witness ==
    /\ Len(bo_delays) >= 3
    /\ bo_base = 40000
    /\ bo_draws[1] = JitterSteps /\ bo_delays[1] = 44000
    /\ bo_draws[2] = 0 /\ bo_delays[2] = MaxDelayMs
    /\ bo_delays[3] = MaxDelayMs

\* C26: with a fixed base_delay and every jitter draw zero, the delay of
\* attempt k+1 is at least that of attempt k, and from the first delay that
\* reaches the cap onward every delay equals the cap.
C26_MonotoneWithCap ==
    NoJitter =>
        /\ \A k \in Calls : bo_delays[k] = Min(Uncapped(k), MaxDelayMs)
        /\ \A k \in Calls : k + 1 \in Calls =>
              /\ bo_delays[k + 1] >= bo_delays[k]
              /\ bo_delays[k] = MaxDelayMs => bo_delays[k + 1] = MaxDelayMs

C26_Witness ==
    /\ NoJitter
    /\ Len(bo_delays) >= 4
    /\ bo_delays[1] < bo_delays[2]
    /\ bo_delays[2] < MaxDelayMs
    /\ bo_delays[3] = MaxDelayMs
    /\ bo_delays[4] = MaxDelayMs

\* C29: with the 10% jitter always on, whatever the jitter draws, the delay
\* of attempt k+1 is never shorter than the delay of attempt k.
C29_JitterKeepsOrder ==
    \A k \in Calls : k + 1 \in Calls => bo_delays[k] <= bo_delays[k + 1]

C29_Witness ==
    /\ Len(bo_delays) >= 2
    /\ bo_draws[1] = JitterSteps
    /\ bo_draws[2] = 0
    /\ bo_delays[1] > Uncapped(1)
    /\ bo_delays[1] < bo_delays[2]
    /\ bo_delays[2] < MaxDelayMs

----------------------------------------------------------------------------
\* C27: get_documentation_url is none exactly when get_error_type is
\* UNKNOWN_ERROR; otherwise it is the reference URL whose fragment is the
\* category of the error type in lower case with hyphens for underscores, the
\* same for every leaf value of that category.
C27_DocumentationUrl ==
    Typed =>
        /\ \A i \in 1..Len(Errors) :
              /\ errinfo[i].url = NoUrl <=> errinfo[i].type = <<"UNKNOWN_ERROR">>
              /\ errinfo[i].url # NoUrl =>
                    \E a \in PublicAttrs :
                       /\ errinfo[i].type[1] = a
                       /\ errinfo[i].url =
                             <<DocBase, IF a = "quota_error" THEN "quota-error"
                                        ELSE "request-error">>
        /\ \A i, j \in 1..Len(Errors) :
              (errinfo[i].url # NoUrl /\ errinfo[j].url # NoUrl
               /\ errinfo[i].type[1] = errinfo[j].type[1])
                 => errinfo[i].url = errinfo[j].url

C27_Witness ==
    /\ Typed /\ Len(Errors) = 2
    /\ errinfo[1].type = <<"request_error", ".", "INVALID_INPUT">>
    /\ errinfo[2].type = <<"request_error", ".", "TRANSIENT_ERROR">>
    /\ errinfo[1].url = <<DocBase, "request-error">>
    /\ errinfo[2].url = errinfo[1].url

----------------------------------------------------------------------------
\* C28: with max_retries <= 0 a with_retry call never invokes the operation
\* and never sleeps, and it ends by raising an error that no invocation of
\* the operation raised (there is no last exception) instead of returning.
C28_NoAttempts ==
    (WrappedCall /\ max_retries <= 0) =>
        /\ trace = <<>>
        /\ last_exception = NoException
        /\ pc \in {"loop", "done"}
        /\ pc = "done" =>
              /\ outcome.kind = "raised"
              /\ outcome.exc.cls = "TypeError"
              /\ \A f \in OpFailures : outcome.exc.cls # f[1]

C28_Witness ==
    /\ WrappedCall /\ max_retries = 0 /\ pc = "done"
    /\ Invocations = 0 /\ Sleeps = 0
    /\ outcome = RaisedOutcome(Exc("TypeError", <<>>, 0))

----------------------------------------------------------------------------
\* C30: every result handle_partial_failure returns has success = true, also
\* when every item of the batch failed; partial_failure is true exactly when
\* the response carries a non-empty partial-failure indicator; without one,
\* failures is empty and results are the response's results in their order.
C30_PartialResultFlags ==
    (ppc = "handled" /\ pf_result.status = "returned") =>
        /\ pf_result.success = TRUE
        /\ pf_result.partial_failure <=> HasIndicator
        /\ ~HasIndicator =>
              /\ pf_result.failures = <<>>
              /\ pf_result.results = IF batch.has_results THEN batch.results ELSE <<>>

C30_Witness ==
    /\ ppc = "handled" /\ pf_result.status = "returned"
    /\ HasIndicator
    /\ Len(batch.results) = 2
    /\ FailedIndices = {0, 1}
    /\ pf_result.results = <<>>
    /\ pf_result.success /\ pf_result.partial_failure

C30_WitnessNoIndicator ==
    /\ ppc = "handled" /\ batch.has_pfe /\ ~batch.pfe_truthy
    /\ ~pf_result.partial_failure
    /\ Len(pf_result.results) = MaxResults

----------------------------------------------------------------------------
(* Vocabulary of the documentation lookup's properties *)

Cached(key) == key \in DOMAIN error_cache
Untyped(key) == key = <<"UNKNOWN_ERROR">>
Starts(t) == lk_n'[t] = lk_n[t] + 1
Returns(t) == lk_pc[t] = "fetch" /\ lk_pc'[t] = "idle"
StartedKey(t) == IF lk_pc'[t] = "fetch" THEN lk_key'[t] ELSE lk_last'[t].key
\* the blurb of an error type: a function of the type's category alone
BlurbOf(key) ==
    <<"Documentation: ", DocBase,
      IF key[1] = "quota_error" THEN "quota-error" ELSE "request-error",
      "\n", "See the official docs for detailed error explanations.">>

\* C21: lookup_documentation never raises: whatever the fetch does (timeout,
\* connection error, status other than 200, any other exception) the call
\* returns none, and for an error without documentation URL it returns none
\* without fetching.
C21_LookupNeverRaises ==
    \A t \in DOMAIN lk_last :
        /\ lk_last[t].status \in {"none", "returned"}
        /\ lk_last[t].outcome = "failed" => lk_last[t].value = NoContent
        /\ Untyped(lk_last[t].key) => (~lk_last[t].fetched /\ lk_last[t].value = NoContent)
        /\ lk_pc[t] = "fetch" => (~Untyped(lk_key[t]) /\ lk_url[t] # NoUrl)

C21_Witness ==
    /\ lk_last # <<>>
    /\ lk_last[1].fetched /\ lk_last[1].outcome = "failed"
    /\ lk_last[1].status = "returned" /\ lk_last[1].value = NoContent
    /\ Untyped(lk_last[2].key) /\ lk_last[2].status = "returned"
    /\ lk_fetches[2] = 0

\* C22: once a lookup for an error type has returned a blurb, the cache
\* keeps that blurb, and a lookup that starts when the type is cached returns
\* the cached blurb without fetching; a lookup that fails leaves the cache
\* unchanged, and a lookup that starts for a type that is not cached fetches.
C22_Memoization ==
    /\ [](\A t \in DOMAIN lk_last :
             lk_last[t].value # NoContent =>
                (Cached(lk_last[t].key) /\ error_cache[lk_last[t].key] = lk_last[t].value))
    /\ [][\A t \in DOMAIN lk_last :
             /\ (Starts(t) /\ Cached(StartedKey(t))) =>
                   /\ lk_pc'[t] = "idle"
                   /\ lk_last'[t].value = error_cache[StartedKey(t)]
                   /\ ~lk_last'[t].fetched
                   /\ lk_fetches' = lk_fetches
                   /\ error_cache' = error_cache
             /\ (Starts(t) /\ ~Cached(StartedKey(t)) /\ ~Untyped(StartedKey(t))) =>
                   (lk_pc'[t] = "fetch" /\ lk_fetches'[t] = lk_fetches[t] + 1)
             /\ (Returns(t) /\ lk_last'[t].value = NoContent) =>
                   error_cache' = error_cache
             /\ (Returns(t) /\ lk_last'[t].value # NoContent) =>
                   error_cache'[lk_key[t]] = lk_last'[t].value]_vars

C22_Witness ==
    /\ lk_last # <<>>
    /\ lk_n[1] = 2 /\ lk_fetches[1] = 2
    /\ lk_last[1].outcome = "ok"
    /\ lk_n[2] = 1 /\ lk_fetches[2] = 0
    /\ lk_last[2].key = lk_last[1].key
    /\ lk_last[2].value = lk_last[1].value
    /\ Cardinality(DOMAIN error_cache) = 1

\* C23: under every interleaving of concurrent lookups the cache is
\* append-only (no key removed, no value replaced by another) and every key
\* maps to the blurb its error type determines, so writers racing on one key
\* leave one and the same entry.
C23_CacheAppendOnly ==
    /\ [](\A key \in DOMAIN error_cache : error_cache[key] = BlurbOf(key))
    /\ [][\A key \in DOMAIN error_cache :
             Cached(key)' /\ error_cache'[key] = error_cache[key]]_vars

C23_Witness ==
    /\ lk_last # <<>>
    /\ lk_n[1] = 1 /\ lk_n[2] = 1
    /\ lk_last[1].outcome = "ok" /\ lk_last[2].outcome = "ok"
    /\ lk_last[1].key = lk_last[2].key
    /\ DOMAIN error_cache = {lk_last[1].key}
    /\ error_cache[lk_last[1].key] = lk_last[2].value

----------------------------------------------------------------------------
(* Vocabulary of the concurrent calls' properties *)

ResultsOf(tr) == SelectSeq(tr, LAMBDA ev : ev.ev = "invoke")
RetryableResult(r) == r.kind = "raise" /\ should_retry(r.exc)

\* the events a call running alone produces when the operation gives the
\* results rs, from the i-th on: attempt i is invoked, and slept after when it
\* failed retryably before the last attempt
RECURSIVE SoloTrace(_, _, _)
SoloTrace(rs, i, n) ==
    IF i > Len(rs) THEN <<>>
    ELSE <<[ev |-> "invoke", attempt |-> i, res |-> rs[i].res]>>
         \o (IF RetryableResult(rs[i].res) /\ i < n
             THEN <<[ev |-> "sleep", attempt |-> i, res |-> NoResult]>>
             ELSE <<>>)
         \o SoloTrace(rs, i + 1, n)

\* how a call running alone ends after the results rs, if it has ended
SoloOutcome(rs) ==
    IF rs = <<>> THEN RaisedOutcome(Exc("TypeError", <<>>, 0))
    ELSE LET r == rs[Len(rs)].res
         IN  IF r.kind = "return" THEN ReturnedOutcome(r.val) ELSE RaisedOutcome(r.exc)

SoloEnded(rs, n) ==
    \/ Len(rs) >= n
    \/ (rs # <<>> /\ ~RetryableResult(rs[Len(rs)].res))

\* C24: whatever the interleaving with other calls on the same ErrorHandler,
\* and whatever calls ran before, a with_retry call numbers its attempts from
\* 1, makes the invocations and sleeps and has the outcome of a call running
\* alone, and is not ended before max_retries attempts by retryable failures.
C24_IndependentCalls ==
    \A c \in DOMAIN cc_trace :
        LET rs == ResultsOf(cc_trace[c])
            solo == SoloTrace(rs, 1, cc_max_retries)
        IN  /\ \/ cc_trace[c] = solo
               \/ (cc_pc[c] = "sleep" /\ solo = Append(cc_trace[c], solo[Len(solo)]))
            /\ Len(rs) <= cc_max_retries
            /\ cc_pc[c] = "done" <=> (cc_outcome[c] # NoOutcome)
            /\ cc_pc[c] = "done" =>
                  /\ SoloEnded(rs, cc_max_retries)
                  /\ cc_outcome[c] = SoloOutcome(rs)
            /\ (cc_pc[c] = "done" /\ \A i \in 1..Len(rs) : RetryableResult(rs[i].res))
                  => Len(rs) = cc_max_retries

C24_Witness ==
    /\ cc_trace # <<>>
    /\ cc_max_retries = MaxRetriesBound
    /\ cc_pc[1] = "done"
    /\ Len(ResultsOf(cc_trace[1])) = cc_max_retries
    /\ cc_outcome[1].kind = "raised"
    /\ cc_pc[2] = "sleep"
    /\ cc_attempt[2] = 1
    /\ Len(cc_trace[2]) = 1

====
